---- MODULE Spec2Model ----
(***************************************************************************)
(* A model of the notebook 04_HowTos/FileService/How_to_use_SDSS_Data:     *)
(* the frame memoization table (extract_frame, display_frame,              *)
(* asinh_image), the spectrum reader (extract_spectrum, plot_spectrum)     *)
(* and the catalog query cells.  The storage collaborator (sc.get), the    *)
(* query collaborator (qc.query) and the decoders (bz2, FITS) are          *)
(* external: what they return or raise is a nondeterministic input.        *)
(***************************************************************************)
EXTENDS Integers, Sequences, FiniteSets, TLC

\* ------------------------------------------------------------ bounds ----

\* Top-level calls (function calls and cell executions) in one behaviour.
MaxCalls == 3
\* Distinct decoded frame arrays the storage may serve.
NImages == 2

\* ------------------------------------------------- str.format helpers ----

Digits == <<"0", "1", "2", "3", "4", "5", "6", "7", "8", "9">>

RECURSIVE DecStr(_)
\* The decimal digits of a natural number.
DecStr(n) == IF n < 10 THEN Digits[n + 1]
             ELSE DecStr(n \div 10) \o Digits[(n % 10) + 1]

RECURSIVE Zeros(_)
Zeros(k) == IF k <= 0 THEN "" ELSE "0" \o Zeros(k - 1)

\* '{:d}'.format(n)
FmtD(n) == IF n < 0 THEN "-" \o DecStr(-n) ELSE DecStr(n)

\* A faulty variant: a fixed-width field that keeps the last w digits.
Fmt0D_Truncates(n, w) ==
    LET d == Zeros(w) \o DecStr(IF n < 0 THEN -n ELSE n)
    IN  SubSeq(d, Len(d) - w + 1, Len(d))

\* '{:0wd}'.format(n): sign first, zero-padded to width w, never truncated.
Fmt0D(n, w) ==
    LET s == IF n < 0 THEN "-" ELSE ""
        d == DecStr(IF n < 0 THEN -n ELSE n)
    IN  s \o Zeros(w - Len(s) - Len(d)) \o d

\* A faulty variant: the numbers run together, with no separator and no
\* padding between them.
FramePath_Unseparated(sas, run, camcol, band, field) ==
    sas \o "eboss/photoObj/frames/301/" \o FmtD(run) \o FmtD(camcol)
        \o "/frame-" \o band \o FmtD(run) \o FmtD(camcol) \o FmtD(field)
        \o ".fits.bz2"

\* The format string of extract_frame, applied to (sas, run, camcol, band, field).
FramePath(sas, run, camcol, band, field) ==
    sas \o "eboss/photoObj/frames/301/" \o FmtD(run) \o "/" \o FmtD(camcol)
        \o "/frame-" \o band \o "-" \o Fmt0D(run, 6) \o "-" \o FmtD(camcol)
        \o "-" \o Fmt0D(field, 4) \o ".fits.bz2"

\* ------------------------------------------------------------ inputs ----

Threads == {"t1", "t2"}
MainThread == "t1"

\* The arguments (sas, run, camcol, field, band) the calls are made with:
\* the notebook's own frame in two bands, the same frame under a second
\* root, and a band that asinh_image has no softening parameter for.
FrameArgs ==
    { [sas |-> "sdss_dr14://", run |-> 6122, camcol |-> 1, field |-> 13, band |-> "r"],
      [sas |-> "sdss_dr14://", run |-> 6122, camcol |-> 1, field |-> 13, band |-> "x"],
      [sas |-> "file://", run |-> 6122, camcol |-> 1, field |-> 13, band |-> "r"] }

\* Arguments whose run and field are narrower than, as wide as and wider
\* than the widths 6 and 4 of the format string.
WideArgs ==
    { [sas |-> "sdss_dr14://", run |-> 94, camcol |-> 6, field |-> 7, band |-> "g"],
      [sas |-> "sdss_dr14://", run |-> 6122, camcol |-> 1, field |-> 13, band |-> "r"],
      [sas |-> "file://", run |-> 999999, camcol |-> 2, field |-> 9999, band |-> "z"],
      [sas |-> "sdss_dr14://", run |-> 1000000, camcol |-> 3, field |-> 10000, band |-> "u"],
      [sas |-> "sdss_dr14://", run |-> 1234567, camcol |-> 4, field |-> 12345, band |-> "i"] }

\* Requests under one root whose numbers are made of the same digits: the
\* digits 1, 1, 1 cut as run 1, camcol 11 and as run 11, camcol 1, the
\* field 11 against the camcol 11, and one tuple in two bands.
KeyArgs ==
    { [sas |-> "sdss_dr14://", run |-> 1, camcol |-> 11, field |-> 1, band |-> "r"],
      [sas |-> "sdss_dr14://", run |-> 11, camcol |-> 1, field |-> 1, band |-> "r"],
      [sas |-> "sdss_dr14://", run |-> 1, camcol |-> 1, field |-> 11, band |-> "r"],
      [sas |-> "sdss_dr14://", run |-> 1, camcol |-> 1, field |-> 11, band |-> "g"],
      [sas |-> "sdss_dr14://", run |-> 0, camcol |-> 1, field |-> 111, band |-> "r"] }

AllArgs == FrameArgs \cup WideArgs \cup KeyArgs

\* fm for each of the arguments, formatted once.
PathTable ==
    [a \in AllArgs |-> FramePath(a.sas, a.run, a.camcol, a.band, a.field)]

PathOf(a) == PathTable[a]

FramePaths == {PathOf(a) : a \in AllArgs}

\* The (run, camcol, field, band) tuple of a request.
TupleOf(a) == <<a.run, a.camcol, a.field, a.band>>

\* A decoded primary data block, in linear flux units.
Images == {[pix |-> k, units |-> "nanomaggies"] : k \in 1..NImages}

\* What sc.get(fm, mode='binary') can hand back: bytes that are no bz2
\* stream, a bz2 stream that is no FITS file, or a compressed frame.
Blobs == {[kind |-> "not_bz2", data |-> 0], [kind |-> "not_fits", data |-> 0]}
         \cup {[kind |-> "frame", data |-> k] : k \in 1..NImages}

NoImage == [pix |-> 0, units |-> "none"]
NoBlob == [kind |-> "none", data |-> 0]

\* ------------------------------------------------------- asinh_image ----

\* The keys of the dict b of asinh_image.
SoftBands == {"u", "g", "r", "i", "z"}

\* The operations of the expression
\*   C*(np.arcsinh((image*1.0e-9)/(2.0*b[band])) + np.log(b[band]))
\* in the order Python evaluates them: the left operand of a binary
\* operator before its right operand, and the arguments before the call.
AsinhOps == << "image*1.0e-9", "b[band]", "2.0*b", "image/b", "arcsinh",
               "b[band]", "log", "arcsinh+log", "C*sum" >>

\* Those among them that compute on the image array.
ArrayOps == {"image*1.0e-9", "image/b", "arcsinh", "arcsinh+log", "C*sum"}

\* The operations executed: all of them, or those up to the first b[band]
\* when the lookup raises KeyError.
AsinhExecuted(band) ==
    IF band \in SoftBands THEN AsinhOps
    ELSE LET first == CHOOSE i \in 1..Len(AsinhOps) :
                         /\ AsinhOps[i] = "b[band]"
                         /\ \A j \in 1..(i - 1) : AsinhOps[j] # "b[band]"
         IN  SubSeq(AsinhOps, 1, first)

\* asinh_image(image, band): the exception raised (or "none"), the array
\* returned, and the number of array computations performed on the way.
asinh_image(image, band) ==
    LET done == AsinhExecuted(band)
        ok == band \in SoftBands
    IN  [exc |-> IF ok THEN "none" ELSE "KeyError",
         mag |-> IF ok THEN [pix |-> image.pix, units |-> "asinh_mag_" \o band]
                 ELSE NoImage,
         array_ops |-> Cardinality({i \in 1..Len(done) : done[i] \in ArrayOps})]

\* ------------------------------------------------------------- state ----

VARIABLES
    extract_frame_cache,  \* the dict of line 709: resolved path -> decoded array
    pc,                   \* per thread: where it stands
    frame,                \* per thread: the locals of its call (kept after it ends)
    last,                 \* the kernel thread's previous finished call, summarised
    before,               \* extract_frame_cache when the kernel thread's call began
    hist,                 \* per path: sc.get successes and table insertions
    requested,            \* the FrameArgs requested so far
    ncalls,               \* top-level calls begun
    section,              \* the part of the notebook the session has run
    spectrum,             \* the last extract_spectrum / plot_spectrum call
    nb,                   \* the notebook's globals that the query cells assign
    cell,                 \* the last query cell run
    phot,                 \* the photometric table and what is computed from it
    specobj               \* the server's specobj table and what is selected from it

vars == <<extract_frame_cache, pc, frame, last, before, hist, requested, ncalls,
          section, spectrum, nb, cell, phot, specobj>>

\* What the frame functions never touch.
kernel_vars == <<spectrum, nb, cell, phot, specobj>>

\* What only the frame functions touch.
frame_vars == <<extract_frame_cache, pc, frame, last, before, hist, requested>>

\* The notebook's parts: the catalog queries, the spectra, the images.  They
\* share no variable (the frame functions touch only extract_frame_cache,
\* the spectrum functions no global, the query cells only their own
\* globals), and a behaviour stays within the part its first call is in.
InSection(s) == section \in {"none", s}

NoArgs == [sas |-> "", run |-> 0, camcol |-> 0, field |-> 0, band |-> ""]

NoFrame ==
    [fn |-> "none", args |-> NoArgs, asinh |-> FALSE, invert |-> FALSE,
     fm |-> "", hit |-> FALSE, blob |-> NoBlob, ret |-> NoImage,
     color_map |-> "", clim |-> <<0, 0>>, shown |-> NoImage,
     exc |-> "none", gets |-> 0, fetched |-> 0, array_ops |-> 0]

\* What is remembered of a finished call.
Summary(f) == [fn |-> f.fn, fm |-> f.fm, exc |-> f.exc, hit |-> f.hit,
               gets |-> f.gets, fetched |-> f.fetched, asinh |-> f.asinh]

\* A thread between calls: not started, returned, or left by an exception.
Resting(t) == pc[t] \in {"idle", "done", "raised"}

\* A faulty variant: the membership test consults a table that is always
\* empty (a fresh dict shadowing the global), so every call misses.
Cached_Shadowed(p) == p \in {}

\* fm in extract_frame_cache
Cached(p) == p \in DOMAIN extract_frame_cache

\* d[key] = value on a dict.
DictSet(d, key, value) ==
    [k \in DOMAIN d \cup {key} |-> IF k = key THEN value ELSE d[k]]

FrameInit ==
    /\ extract_frame_cache = <<>>
    /\ pc = [t \in Threads |-> "idle"]
    /\ frame = [t \in Threads |-> NoFrame]
    /\ last = Summary(NoFrame)
    /\ before = <<>>
    /\ hist = [p \in FramePaths |-> [ok |-> 0, stores |-> 0]]
    /\ requested = {}
    /\ ncalls = 0
    /\ section = "none"

\* ----------------------------------------------------- extract_frame ----

\* Entering a top-level call: the bookkeeping common to both entry points.
Enter(t, f, a) ==
    /\ ncalls < MaxCalls
    /\ ncalls' = ncalls + 1
    /\ InSection("images")
    /\ section' = "images"
    /\ frame' = [frame EXCEPT ![t] = f]
    /\ last' = IF t = MainThread THEN Summary(frame[t]) ELSE last
    /\ before' = IF t = MainThread THEN extract_frame_cache ELSE before
    /\ requested' = requested \cup {a}
    /\ pc' = [pc EXCEPT ![t] = "ef_check"]
    /\ UNCHANGED <<extract_frame_cache, hist, kernel_vars>>

\* extract_frame(run, camcol, field, band, sas): the path is formatted.
ExtractFrameCall(t) ==
    /\ Resting(t)
    /\ \E a \in FrameArgs :
          Enter(t, [NoFrame EXCEPT !.fn = "extract_frame", !.args = a,
                                   !.fm = PathOf(a)], a)

\* extract_frame called with runs and fields of every width, a bounded
\* number of times.
MaxWideCalls == 2

ExtractFrameWideCall(t) ==
    /\ Resting(t)
    /\ ncalls < MaxWideCalls
    /\ \E a \in WideArgs :
          Enter(t, [NoFrame EXCEPT !.fn = "extract_frame", !.args = a,
                                   !.fm = PathOf(a)], a)

\* extract_frame called on requests that differ in how their digits are
\* cut, a bounded number of times.
MaxKeyCalls == 3

ExtractFrameKeyCall(t) ==
    /\ Resting(t)
    /\ ncalls < MaxKeyCalls
    /\ \E a \in KeyArgs :
          Enter(t, [NoFrame EXCEPT !.fn = "extract_frame", !.args = a,
                                   !.fm = PathOf(a)], a)

\* A faulty variant: display_frame looks the band up before it fetches, and
\* fails at once when asinh is set and the band has no softening parameter.
DisplayFrameCall_BandFirst(t) ==
    /\ Resting(t)
    /\ ncalls < MaxCalls
    /\ ncalls' = ncalls + 1
    /\ InSection("images")
    /\ section' = "images"
    /\ \E a \in FrameArgs, asinh \in BOOLEAN, invert \in BOOLEAN :
          LET f == [NoFrame EXCEPT !.fn = "display_frame", !.args = a,
                                   !.asinh = asinh, !.invert = invert,
                                   !.color_map = IF invert THEN "gray" ELSE "gray_r",
                                   !.fm = PathOf(a)]
              bad == asinh /\ a.band \notin SoftBands
          IN  /\ frame' = [frame EXCEPT ![t] = IF bad THEN [f EXCEPT !.exc = "KeyError"]
                                                ELSE f]
              /\ pc' = [pc EXCEPT ![t] = IF bad THEN "raised" ELSE "ef_check"]
              /\ requested' = requested \cup {a}
    /\ last' = IF t = MainThread THEN Summary(frame[t]) ELSE last
    /\ before' = IF t = MainThread THEN extract_frame_cache ELSE before
    /\ UNCHANGED <<extract_frame_cache, hist, kernel_vars>>

\* display_frame(run, camcol, field, band, asinh, invert, sas): the colour
\* map is chosen, then extract_frame is called.
DisplayFrameCall(t) ==
    /\ Resting(t)
    /\ \E a \in FrameArgs, asinh \in BOOLEAN, invert \in BOOLEAN :
          Enter(t, [NoFrame EXCEPT !.fn = "display_frame", !.args = a,
                                   !.asinh = asinh, !.invert = invert,
                                   !.color_map = IF invert THEN "gray" ELSE "gray_r",
                                   !.fm = PathOf(a)], a)

\* if fm not in extract_frame_cache:
EfCheck(t) ==
    /\ pc[t] = "ef_check"
    /\ frame' = [frame EXCEPT ![t].hit = Cached(frame[t].fm)]
    /\ pc' = [pc EXCEPT ![t] = IF Cached(frame[t].fm) THEN "ef_return" ELSE "ef_get"]
    /\ UNCHANGED <<extract_frame_cache, last, before, hist, requested, ncalls, section, kernel_vars>>

\* A faulty variant: a failed sc.get is tried again instead of raising.
EfGetRaises_Retries(t) ==
    /\ pc[t] = "ef_get"
    /\ frame' = [frame EXCEPT ![t].gets = @ + 1]
    /\ UNCHANGED <<extract_frame_cache, pc, last, before, hist, requested, ncalls, section, kernel_vars>>

\* sc.get(fm, mode='binary') raises: nothing catches it.
EfGetRaises(t) ==
    /\ pc[t] = "ef_get"
    /\ frame' = [frame EXCEPT ![t].gets = @ + 1, ![t].exc = "StorageError"]
    /\ pc' = [pc EXCEPT ![t] = "raised"]
    /\ UNCHANGED <<extract_frame_cache, last, before, hist, requested, ncalls, section, kernel_vars>>

\* sc.get(fm, mode='binary') returns bytes.
EfGetReturns(t) ==
    /\ pc[t] = "ef_get"
    /\ \E b \in Blobs :
          frame' = [frame EXCEPT ![t].gets = @ + 1, ![t].fetched = @ + 1,
                                 ![t].blob = b]
    /\ hist' = [hist EXCEPT ![frame[t].fm].ok = @ + 1]
    /\ pc' = [pc EXCEPT ![t] = "ef_store"]
    /\ UNCHANGED <<extract_frame_cache, last, before, requested, ncalls, section, kernel_vars>>

\* The exception of BZ2File / fits.open / hdulist[0].data on these bytes.
DecodeError(b) ==
    CASE b.kind = "not_bz2" -> "OSError"
      [] b.kind = "not_fits" -> "FITSError"
      [] OTHER -> "none"

\* A faulty variant: the table keeps the latest frame only.
StoreFrame_SingleSlot(cache, fm, b) ==
    [k \in {fm} |-> [pix |-> b.data, units |-> "nanomaggies"]]

\* A faulty variant: the array is also kept under a second key.
StoreFrame_Alias(cache, fm, b) ==
    DictSet(DictSet(cache, fm, [pix |-> b.data, units |-> "nanomaggies"]),
            "latest", [pix |-> b.data, units |-> "nanomaggies"])

\* The table after extract_frame_cache[fm] = hdulist[0].data.
StoreFrame(cache, fm, b) ==
    DictSet(cache, fm, [pix |-> b.data, units |-> "nanomaggies"])

\* A faulty variant: the key is entered in the table before the decoders
\* have run, and stays there when they raise.
EfStore_InsertsFirst(t) ==
    /\ pc[t] = "ef_store"
    /\ extract_frame_cache' =
           StoreFrame(extract_frame_cache, frame[t].fm, frame[t].blob)
    /\ hist' = [hist EXCEPT ![frame[t].fm].stores = @ + 1]
    /\ IF DecodeError(frame[t].blob) # "none"
       THEN /\ frame' = [frame EXCEPT ![t].exc = DecodeError(frame[t].blob)]
            /\ pc' = [pc EXCEPT ![t] = "raised"]
       ELSE /\ pc' = [pc EXCEPT ![t] = "ef_return"]
            /\ UNCHANGED frame
    /\ UNCHANGED <<last, before, requested, ncalls, section, kernel_vars>>

\* with BZ2File(...) as cf: with fits.open(cf) as hdulist:
\*     extract_frame_cache[fm] = hdulist[0].data
\* The decoders raise before the assignment, or the array is stored.
EfStore(t) ==
    /\ pc[t] = "ef_store"
    /\ \/ /\ DecodeError(frame[t].blob) # "none"
          /\ frame' = [frame EXCEPT ![t].exc = DecodeError(frame[t].blob)]
          /\ pc' = [pc EXCEPT ![t] = "raised"]
          /\ UNCHANGED <<extract_frame_cache, hist>>
       \/ /\ DecodeError(frame[t].blob) = "none"
          /\ extract_frame_cache' =
                 StoreFrame(extract_frame_cache, frame[t].fm, frame[t].blob)
          /\ hist' = [hist EXCEPT ![frame[t].fm].stores = @ + 1]
          /\ pc' = [pc EXCEPT ![t] = "ef_return"]
          /\ UNCHANGED frame
    /\ UNCHANGED <<last, before, requested, ncalls, section, kernel_vars>>

\* A faulty variant: return extract_frame_cache.pop(fm).
EfReturn_Pops(t) ==
    /\ pc[t] = "ef_return"
    /\ IF Cached(frame[t].fm)
       THEN /\ frame' = [frame EXCEPT ![t].ret = extract_frame_cache[frame[t].fm],
                                      ![t].blob = NoBlob]
            /\ extract_frame_cache' =
                   [k \in DOMAIN extract_frame_cache \ {frame[t].fm} |->
                       extract_frame_cache[k]]
            /\ pc' = [pc EXCEPT ![t] = IF frame[t].fn = "display_frame"
                                         THEN "df_show" ELSE "done"]
       ELSE /\ frame' = [frame EXCEPT ![t].exc = "KeyError"]
            /\ pc' = [pc EXCEPT ![t] = "raised"]
            /\ UNCHANGED extract_frame_cache
    /\ UNCHANGED <<last, before, hist, requested, ncalls, section, kernel_vars>>

\* return extract_frame_cache[fm], to the caller or into display_frame; the
\* bytes read are local to extract_frame and gone with it.  Indexing a dict
\* with a key it does not hold raises KeyError.
EfReturn(t) ==
    /\ pc[t] = "ef_return"
    /\ IF Cached(frame[t].fm)
       THEN /\ frame' = [frame EXCEPT ![t].ret = extract_frame_cache[frame[t].fm],
                                      ![t].blob = NoBlob]
            /\ pc' = [pc EXCEPT ![t] = IF frame[t].fn = "display_frame"
                                         THEN "df_show" ELSE "done"]
       ELSE /\ frame' = [frame EXCEPT ![t].exc = "KeyError"]
            /\ pc' = [pc EXCEPT ![t] = "raised"]
    /\ UNCHANGED <<extract_frame_cache, last, before, hist, requested, ncalls, section, kernel_vars>>

\* A faulty variant: the conversion is written back into the array that
\* extract_frame returned, which is the array the table holds.
DfShow_InPlace(t) ==
    /\ pc[t] = "df_show"
    /\ LET f == frame[t]
           r == asinh_image(f.ret, f.args.band)
       IN  IF ~f.asinh
           THEN /\ frame' = [frame EXCEPT ![t].clim = <<0, 1>>, ![t].shown = f.ret]
                /\ pc' = [pc EXCEPT ![t] = "done"]
                /\ UNCHANGED extract_frame_cache
           ELSE IF r.exc # "none"
           THEN /\ frame' = [frame EXCEPT ![t].clim = <<0, 1>>, ![t].exc = r.exc,
                                          ![t].array_ops = r.array_ops]
                /\ pc' = [pc EXCEPT ![t] = "raised"]
                /\ UNCHANGED extract_frame_cache
           ELSE /\ frame' = [frame EXCEPT ![t].clim = <<26, 18>>, ![t].shown = r.mag,
                                          ![t].ret = r.mag,
                                          ![t].array_ops = r.array_ops]
                /\ extract_frame_cache' = DictSet(extract_frame_cache, f.fm, r.mag)
                /\ pc' = [pc EXCEPT ![t] = "done"]
    /\ UNCHANGED <<last, before, hist, requested, ncalls, section, kernel_vars>>

\* The rest of display_frame: the optional asinh conversion, whose result
\* is a new array bound to the local name image, then the plot.
DfShow(t) ==
    /\ pc[t] = "df_show"
    /\ LET f == frame[t]
           r == asinh_image(f.ret, f.args.band)
       IN  IF ~f.asinh
           THEN /\ frame' = [frame EXCEPT ![t].clim = <<0, 1>>, ![t].shown = f.ret]
                /\ pc' = [pc EXCEPT ![t] = "done"]
           ELSE IF r.exc # "none"
           THEN /\ frame' = [frame EXCEPT ![t].clim = <<0, 1>>, ![t].exc = r.exc,
                                          ![t].array_ops = r.array_ops]
                /\ pc' = [pc EXCEPT ![t] = "raised"]
           ELSE /\ frame' = [frame EXCEPT ![t].clim = <<26, 18>>, ![t].shown = r.mag,
                                          ![t].array_ops = r.array_ops]
                /\ pc' = [pc EXCEPT ![t] = "done"]
    /\ UNCHANGED <<extract_frame_cache, last, before, hist, requested, ncalls, section, kernel_vars>>

\* -------------------------------------------------- extract_spectrum ----

\* Fibers (rows) of a plate file and pixels (NAXIS1) of a row.
NRows == 2
NPix == 2

\* The format string of extract_spectrum, applied to (sas, run2d, plate, mjd).
SpPath(sas, run2d, plate, mjd) ==
    sas \o "sdss/spectro/redux/" \o run2d \o "/" \o Fmt0D(plate, 4)
        \o "/spPlate-" \o Fmt0D(plate, 4) \o "-" \o Fmt0D(mjd, 5) \o ".fits"

\* Data block h (0-based) of a decoded file: naxis2 rows of naxis1 pixels,
\* pixel (r, c) holding a value that names its block, row and column.
Hdu(h, naxis1, naxis2) ==
    [naxis1 |-> naxis1,
     data |-> [r \in 1..naxis2 |-> [c \in 1..naxis1 |-> 100 * h + 10 * r + c]]]

\* A decoded file of n blocks: block 0 has rows of n0 pixels, block 1 of n1,
\* block 6 of n6.  COEFF0 and COEFF1 are in units of 1e-4 (3.5 and 0.0001).
SpFile(n, n0, n1, n6) ==
    [kind |-> "fits",
     hdus |-> [h \in 1..n |-> Hdu(h - 1, CASE h = 1 -> n0 [] h = 2 -> n1
                                          [] h = 7 -> n6 [] OTHER -> n0, NRows)],
     coeff0 |-> 35000, coeff1 |-> 1]

\* What sc.get(vopath, mode='fileobj') can hand back, or that it raises.
Served ==
    { [kind |-> "raise", hdus |-> <<>>, coeff0 |-> 0, coeff1 |-> 0],
      [kind |-> "not_fits", hdus |-> <<>>, coeff0 |-> 0, coeff1 |-> 0],
      SpFile(7, NPix, NPix, NPix),
      SpFile(7, NPix, NPix - 1, NPix),
      SpFile(7, NPix, NPix, NPix + 1),
      SpFile(2, NPix, NPix, NPix),
      [SpFile(7, NPix, NPix, NPix) EXCEPT !.coeff0 = 35800, !.coeff1 = 2] }

\* The fiber numbers asked for: the rows of the file and what lies around.
Fibers == (0 - NRows - 1)..(NRows + 1)

\* numpy's a[i, :] on the rows of a 2-D array: a negative i counts from the
\* end; IndexError outside -n..n-1.
NpRow(data, i) ==
    LET n == Len(data)
        j == IF i < 0 THEN i + n ELSE i
    IN  IF j < 0 \/ j >= n THEN [exc |-> "IndexError", row |-> <<>>]
        ELSE [exc |-> "none", row |-> data[j + 1]]

\* A faulty variant: the fiber number used as the row index.
HduRow_ZeroBased(hdus, h, fiber) ==
    IF h >= Len(hdus) THEN [exc |-> "IndexError", row |-> <<>>]
    ELSE NpRow(hdus[h + 1].data, fiber)

\* hdulist[h].data[fiber-1, :]
HduRow(hdus, h, fiber) ==
    IF h >= Len(hdus) THEN [exc |-> "IndexError", row |-> <<>>]
    ELSE NpRow(hdus[h + 1].data, fiber - 1)

\* A faulty variant: the pixel index counted from 1.
Wavelength_FromOne(coeff0, coeff1, naxis1) ==
    [k \in 1..naxis1 |-> [pow10 |-> coeff0 + coeff1 * k]]

\* 10.0**(COEFF0 + COEFF1*np.arange(NAXIS1)): entry k+1 holds the exponent
\* of element k, in units of 1e-4.
Wavelength(coeff0, coeff1, naxis1) ==
    [k \in 1..naxis1 |-> [pow10 |-> coeff0 + coeff1 * (k - 1)]]

NoSpectrum ==
    [fn |-> "none", plate |-> 0, mjd |-> 0, fiber |-> 0, showsky |-> FALSE,
     vopath |-> "", gets |-> 0, exc |-> "none", returned |-> FALSE,
     wavelength |-> <<>>, flux |-> <<>>, ivar |-> <<>>, sky |-> <<>>,
     nrows |-> 0, plotted |-> {},
     hdr |-> [COEFF0 |-> 0, COEFF1 |-> 0, NAXIS1 |-> 0], ret |-> <<>>,
     repeat |-> FALSE]

\* extract_spectrum(plate, mjd, fiber, run2d, sas) when the storage answers
\* `served`: one sc.get, then the statements in order, the first exception
\* ending the call.
extract_spectrum(plate, mjd, fiber, run2d, sas, served) ==
    LET base == [NoSpectrum EXCEPT !.fn = "extract_spectrum", !.plate = plate,
                                   !.mjd = mjd, !.fiber = fiber, !.gets = 1,
                                   !.vopath = SpPath(sas, run2d, plate, mjd),
                                   !.nrows = IF served.kind = "fits"
                                             THEN Len(served.hdus[1].data) ELSE 0]
        flux == HduRow(served.hdus, 0, fiber)
        ivar == HduRow(served.hdus, 1, fiber)
        sky == HduRow(served.hdus, 6, fiber)
        hdr == [COEFF0 |-> served.coeff0, COEFF1 |-> served.coeff1,
                NAXIS1 |-> served.hdus[1].naxis1]
        wavelength == Wavelength(hdr.COEFF0, hdr.COEFF1, hdr.NAXIS1)
    IN  CASE served.kind = "raise" -> [base EXCEPT !.exc = "StorageError"]
          [] served.kind = "not_fits" -> [base EXCEPT !.exc = "OSError"]
          [] OTHER ->
             IF flux.exc # "none" THEN [base EXCEPT !.exc = flux.exc]
             ELSE IF ivar.exc # "none" THEN [base EXCEPT !.exc = ivar.exc]
             ELSE IF sky.exc # "none" THEN [base EXCEPT !.exc = sky.exc]
             ELSE [base EXCEPT !.returned = TRUE, !.hdr = hdr,
                               !.wavelength = wavelength,
                               !.flux = flux.row, !.ivar = ivar.row, !.sky = sky.row,
                               !.ret = <<wavelength, flux.row, ivar.row, sky.row>>]

\* plot_spectrum(plate, mjd, fiber, showsky): extract_spectrum, then
\* ax.plot(wavelength, flux) and, with showsky, ax.plot(wavelength, sky);
\* matplotlib raises ValueError when x and y differ in length.
plot_spectrum(plate, mjd, fiber, showsky, run2d, sas, served) ==
    LET s == [extract_spectrum(plate, mjd, fiber, run2d, sas, served)
                 EXCEPT !.fn = "plot_spectrum", !.showsky = showsky]
    IN  IF s.exc # "none" THEN [s EXCEPT !.returned = FALSE]
        ELSE IF Len(s.wavelength) # Len(s.flux)
        THEN [s EXCEPT !.exc = "ValueError", !.returned = FALSE]
        ELSE IF showsky /\ Len(s.wavelength) # Len(s.sky)
        THEN [s EXCEPT !.exc = "ValueError", !.returned = FALSE,
                       !.plotted = {"OBJECT"}]
        ELSE [s EXCEPT !.plotted = IF showsky THEN {"OBJECT", "SKY"} ELSE {"OBJECT"}]

\* ------------------------------------------------------- query cells ----

\* Rows a query may return.
MaxRows == 2

NoError == [type |-> "none", msg |-> "", has_message |-> FALSE]

\* What qc.query can raise: the client's own error, which carries a
\* `message` attribute, or a Python 3 built-in exception, which has none.
QcErrors ==
    { [type |-> "queryClientError", msg |-> "query failed", has_message |-> TRUE],
      [type |-> "TimeoutError", msg |-> "timed out", has_message |-> FALSE] }

\* What one qc.query call does: it returns a response of n rows, or raises.
QcOutcomes ==
    {[kind |-> "rows", n |-> n, err |-> NoError] : n \in 1..MaxRows}
    \cup {[kind |-> "raise", n |-> 0, err |-> e] : e \in QcErrors}

\* A value of a notebook global: unbound, or data of n rows that came from
\* the response to query q.
Unbound == [q |-> "unbound", n |-> 0]
Data(q, n) == [q |-> q, n |-> n]

\* The cells whose qc.query call stands in try: ... except Exception as e:
\* print(e.message), and the globals the else: branch of each assigns.
TryCells == {"photo", "boss_target1", "lowz", "cmass"}

Assigned(name) ==
    CASE name = "photo" -> {"result", "rdev_i", "auxcolor"}
      [] name = "boss_target1" -> {"result", "boss_target1"}
      [] name = "lowz" -> {"result", "plate_lowz", "mjd_lowz", "fiber_lowz",
                           "redshift_lowz"}
      [] name = "cmass" -> {"result", "plate_cmass", "mjd_cmass", "fiber_cmass",
                            "redshift_cmass"}
      [] OTHER -> {"result"}

\* The globals the cells assign: those of the query cells and the two masks
\* of the cut cell.
Globals == UNION {Assigned(name) : name \in TryCells \cup {"count"}}
              \cup {"LOWZ", "CMASS"}

NoCell == [name |-> "none", qc_calls |-> 0, qc_err |-> NoError,
           exc |-> NoError, stdout |-> ""]

\* What print(e.message) does in the except clause.
PrintMessage(c, e) ==
    IF e.has_message THEN [c EXCEPT !.stdout = e.msg]
    ELSE [c EXCEPT !.exc = [type |-> "AttributeError",
                            msg |-> "object has no attribute 'message'",
                            has_message |-> FALSE]]

\* A faulty variant: the except clause resets the globals of the cell.
try_query_cell_Resets(name, globals, o) ==
    LET c == [NoCell EXCEPT !.name = name, !.qc_calls = 1, !.qc_err = o.err]
    IN  IF o.kind = "raise"
        THEN [cell |-> PrintMessage(c, o.err),
              nb |-> [g \in Globals |-> IF g \in Assigned(name)
                                        THEN Unbound ELSE globals[g]]]
        ELSE [cell |-> c,
              nb |-> [g \in Globals |-> IF g \in Assigned(name)
                                        THEN Data(name, o.n) ELSE globals[g]]]

\* A cell of the form try: vot = qc.query(...) except Exception as e:
\* print(e.message) else: <assignments>, run with qc.query doing `o`:
\* the cell's record and the globals after it.
try_query_cell(name, globals, o) ==
    LET c == [NoCell EXCEPT !.name = name, !.qc_calls = 1, !.qc_err = o.err]
    IN  IF o.kind = "raise"
        THEN [cell |-> PrintMessage(c, o.err), nb |-> globals]
        ELSE [cell |-> c,
              nb |-> [g \in Globals |-> IF g \in Assigned(name)
                                        THEN Data(name, o.n) ELSE globals[g]]]

\* The row count cell: result = qc.query(adql=q, fmt='csv'), with no try.
count_cell(globals, o) ==
    LET c == [NoCell EXCEPT !.name = "count", !.qc_calls = 1, !.qc_err = o.err]
    IN  IF o.kind = "raise"
        THEN [cell |-> [c EXCEPT !.exc = o.err], nb |-> globals]
        ELSE [cell |-> c, nb |-> [globals EXCEPT !["result"] = Data("count", 1)]]

\* ---------------------------------------------- magnitudes and colors ----

\* A magnitude or a color: NaN, or a number held exactly in units of
\* 1/2400000 mag, the unit in which every quantity of the cuts is whole.
NaN == [nan |-> TRUE, v |-> 0]

\* The number written as thousandths of a magnitude (19.6 is Mag(19600)).
Mag(milli) == [nan |-> FALSE, v |-> milli * 2400]

\* a + b and a - b: NaN if either is.
Add(a, b) == IF a.nan \/ b.nan THEN NaN ELSE [nan |-> FALSE, v |-> a.v + b.v]
Sub(a, b) == IF a.nan \/ b.nan THEN NaN ELSE [nan |-> FALSE, v |-> a.v - b.v]

\* (num/den) * a for a constant num/den.
Times(num, den, a) ==
    IF a.nan THEN NaN ELSE [nan |-> FALSE, v |-> (a.v \div den) * num]

\* np.abs
Abs(a) == IF a.nan THEN NaN ELSE [nan |-> FALSE, v |-> IF a.v < 0 THEN -a.v ELSE a.v]

\* A faulty variant: a comparison with NaN counts as true.
Lt_NanTrue(a, b) == a.nan \/ b.nan \/ a.v < b.v

\* a < b and a > b: false when either is NaN.
Lt(a, b) == ~a.nan /\ ~b.nan /\ a.v < b.v
Gt(a, b) == Lt(b, a)

\* ------------------------------------------------- single precision ----

\* An IEEE single, non-negative: NaN, zero (m = 0) or m * 2^e with
\* 2^23 <= m < 2^24.
F32NaN == [nan |-> TRUE, m |-> 0, e |-> 0]

RECURSIVE F32Round(_, _, _, _)
\* The single nearest (ties to even) to (q + r/den) * 2^e, where r < den and
\* 0 < q + r/den < 2^24.
F32Round(q, r, den, e) ==
    IF q < 8388608
    THEN F32Round(2 * q + (IF 2 * r >= den THEN 1 ELSE 0),
                  IF 2 * r >= den THEN 2 * r - den ELSE 2 * r, den, e - 1)
    ELSE LET up == 2 * r > den \/ (2 * r = den /\ q % 2 = 1)
             m == IF up THEN q + 1 ELSE q
         IN  IF m = 16777216 THEN [nan |-> FALSE, m |-> 8388608, e |-> e + 1]
             ELSE [nan |-> FALSE, m |-> m, e |-> e]

\* The single nearest to the decimal num/den.
F32(num, den) ==
    IF num = 0 THEN [nan |-> FALSE, m |-> 0, e |-> 0]
    ELSE F32Round(num \div den, num % den, den, 0)

\* a / b in single precision (b = 0 is not asked for).
F32Div(a, b) ==
    IF a.nan \/ b.nan \/ b.m = 0 THEN F32NaN
    ELSE IF a.m = 0 THEN a
    ELSE LET q == F32Round(a.m \div b.m, a.m % b.m, b.m, 0)
         IN  [q EXCEPT !.e = @ + a.e - b.e]

\* The plate scale 0.396 and the radius limit 20, as singles.
PlateScale == F32(396, 1000)
RadiusLimit == F32(20, 1)

\* A faulty variant: the comparison lets equality through.
F32Lt_OrEqual(a, b) ==
    /\ ~a.nan /\ ~b.nan
    /\ (a.m = 0 \/ a.e < b.e \/ (a.e = b.e /\ a.m <= b.m))

\* a < b for singles: false when either is NaN.
F32Lt(a, b) ==
    /\ ~a.nan /\ ~b.nan
    /\ b.m # 0
    /\ (a.m = 0 \/ a.e < b.e \/ (a.e = b.e /\ a.m < b.m))

\* ------------------------------------------------ auxilliary_colors ----

\* Rows of a table and entries of a column.
MaxBatch == 2

\* The shape of a op b for 1-D arrays of lengths m and n under numpy's
\* broadcasting: a length of 1 stretches, unequal lengths do not combine
\* (0 stands for the ValueError).
Broadcast(m, n) ==
    IF m = 0 \/ n = 0 THEN 0
    ELSE IF m = n \/ n = 1 THEN m
    ELSE IF m = 1 THEN n
    ELSE 0

\* Element k of a column stretched to the length of the result.
At(col, k) == IF Len(col) = 1 THEN col[1] ELSE col[k]

\* The three colors of one row's model magnitudes g, r, i.
c_par(g, r, i) ==
    Add(Times(7, 10, Sub(g, r)), Times(12, 10, Sub(Sub(r, i), Mag(180))))

\* A faulty variant: (g - r) enters c_perp with the weight it has in d_perp.
c_perp_Eighth(g, r, i) ==
    Sub(Sub(Sub(r, i), Times(1, 8, Sub(g, r))), Mag(180))

c_perp(g, r, i) ==
    Sub(Sub(Sub(r, i), Times(1, 4, Sub(g, r))), Mag(180))

d_perp(g, r, i) ==
    Sub(Sub(r, i), Times(1, 8, Sub(g, r)))

\* auxilliary_colors(data) for data with a shape (n,) and the columns
\* modelmag_g, modelmag_r, modelmag_i: aux is allocated with data's shape,
\* each color is computed over whole columns and assigned into aux.
auxilliary_colors(data) ==
    LET n == data.shape
        gr == Broadcast(Len(data.modelmag_g), Len(data.modelmag_r))
        ri == Broadcast(Len(data.modelmag_r), Len(data.modelmag_i))
        len == Broadcast(gr, ri)
    IN  IF len = 0 \/ len \notin {1, n}
        THEN [exc |-> "ValueError", aux |-> <<>>]
        ELSE [exc |-> "none",
              aux |-> [k \in 1..n |->
                         [c_par |-> c_par(At(data.modelmag_g, k), At(data.modelmag_r, k),
                                          At(data.modelmag_i, k)),
                          c_perp |-> c_perp(At(data.modelmag_g, k), At(data.modelmag_r, k),
                                            At(data.modelmag_i, k)),
                          d_perp |-> d_perp(At(data.modelmag_g, k), At(data.modelmag_r, k),
                                            At(data.modelmag_i, k))]]]

\* ------------------------------------------- the photometric table ----

\* A row of the photometric query: a galaxy that passes every clause of
\* both cuts.  devrad_i is a single, the magnitudes as above.
BaseRow ==
    [modelmag_g |-> Mag(20700), modelmag_r |-> Mag(19000),
     modelmag_i |-> Mag(18200), modelmag_z |-> Mag(18000),
     cmodelmag_r |-> Mag(19000), cmodelmag_i |-> Mag(18200),
     psfmag_r |-> Mag(20200), psfmag_i |-> Mag(19000), psfmag_z |-> Mag(19000),
     fiber2mag_i |-> Mag(21000), devrad_i |-> F32(791, 100)]

\* Other values of each column: missing, and on or across the edge of a
\* clause.
Alternatives ==
    [modelmag_g |-> {NaN, Mag(20620), Mag(20680), Mag(22280)},
     modelmag_r |-> {NaN},
     modelmag_i |-> {NaN, Mag(17000)},
     modelmag_z |-> {NaN},
     cmodelmag_r |-> {NaN, Mag(16000), Mag(19600), Mag(19700)},
     cmodelmag_i |-> {NaN, Mag(17500), Mag(19900)},
     psfmag_r |-> {NaN, Mag(19300)},
     psfmag_i |-> {NaN, Mag(18760)},
     psfmag_z |-> {NaN, Mag(18845)},
     fiber2mag_i |-> {NaN, Mag(21500)},
     devrad_i |-> {F32NaN, F32(792, 100), F32(793, 100)}]

\* The base row with g, r and i moved so that g - r grows by 0.1 and r - i
\* stays what it was.
ShiftedRow ==
    [BaseRow EXCEPT !.modelmag_g = Mag(21200), !.modelmag_r = Mag(19400),
                    !.modelmag_i = Mag(18600)]

\* The rows a response is made of: the base row, or it with one column
\* changed, or a redder row at the faint limit of CMASS, or the shifted row.
PhotoRows ==
    {BaseRow, [BaseRow EXCEPT !.modelmag_i = Mag(17900), !.cmodelmag_i = Mag(19900)],
     ShiftedRow}
    \cup UNION {{[BaseRow EXCEPT ![f] = x] : x \in Alternatives[f]} :
                            f \in DOMAIN Alternatives}

\* Tables of 1..MaxBatch rows.
PhotoTables == UNION {[1..n -> PhotoRows] : n \in 1..MaxBatch}

\* The structured array as auxilliary_colors sees it.
Columns(rows) ==
    [shape |-> Len(rows),
     modelmag_g |-> [k \in 1..Len(rows) |-> rows[k].modelmag_g],
     modelmag_r |-> [k \in 1..Len(rows) |-> rows[k].modelmag_r],
     modelmag_i |-> [k \in 1..Len(rows) |-> rows[k].modelmag_i]]

\* rdev_i = result['devrad_i']/0.396
rdev_i(rows) == [k \in 1..Len(rows) |-> F32Div(rows[k].devrad_i, PlateScale)]

\* ---------------------------------------------------------- the cuts ----

\* A faulty variant: the faint limit of LOWZ left out.
LOWZ_NoFaintLimit(result, auxcolor) ==
    [k \in 1..Len(result) |->
        /\ Lt(result[k].cmodelmag_r,
              Add(Mag(13500), Times(10, 3, auxcolor[k].c_par)))
        /\ Lt(Abs(auxcolor[k].c_perp), Mag(200))
        /\ Gt(result[k].cmodelmag_r, Mag(16000))
        /\ Gt(Sub(result[k].psfmag_r, result[k].cmodelmag_r), Mag(300))]

\* LOWZ = (...) & (...) & ..., element by element.
LOWZ(result, auxcolor) ==
    [k \in 1..Len(result) |->
        /\ Lt(result[k].cmodelmag_r,
              Add(Mag(13500), Times(10, 3, auxcolor[k].c_par)))
        /\ Lt(Abs(auxcolor[k].c_perp), Mag(200))
        /\ Gt(result[k].cmodelmag_r, Mag(16000))
        /\ Lt(result[k].cmodelmag_r, Mag(19600))
        /\ Gt(Sub(result[k].psfmag_r, result[k].cmodelmag_r), Mag(300))]

\* A faulty variant: the fiber2 magnitude limit of CMASS left out.
CMASS_NoFiber2(result, auxcolor, rdev) ==
    [k \in 1..Len(result) |->
        /\ Lt(result[k].cmodelmag_i,
              Add(Mag(19860), Times(16, 10, Sub(auxcolor[k].d_perp, Mag(800)))))
        /\ Gt(result[k].cmodelmag_i, Mag(17500))
        /\ Lt(result[k].cmodelmag_i, Mag(19900))
        /\ Gt(auxcolor[k].d_perp, Mag(550))
        /\ Gt(Sub(result[k].psfmag_i, result[k].modelmag_i),
              Add(Mag(200), Times(2, 10, Sub(Mag(20000), result[k].modelmag_i))))
        /\ Gt(Sub(result[k].psfmag_z, result[k].modelmag_z),
              Sub(Mag(9125), Times(46, 100, result[k].modelmag_z)))
        /\ Lt(Sub(result[k].modelmag_r, result[k].modelmag_i), Mag(2000))
        /\ F32Lt(rdev[k], RadiusLimit)]

\* CMASS = (...) & (...) & ..., element by element.
CMASS(result, auxcolor, rdev) ==
    [k \in 1..Len(result) |->
        /\ Lt(result[k].cmodelmag_i,
              Add(Mag(19860), Times(16, 10, Sub(auxcolor[k].d_perp, Mag(800)))))
        /\ Gt(result[k].cmodelmag_i, Mag(17500))
        /\ Lt(result[k].cmodelmag_i, Mag(19900))
        /\ Gt(auxcolor[k].d_perp, Mag(550))
        /\ Gt(Sub(result[k].psfmag_i, result[k].modelmag_i),
              Add(Mag(200), Times(2, 10, Sub(Mag(20000), result[k].modelmag_i))))
        /\ Gt(Sub(result[k].psfmag_z, result[k].modelmag_z),
              Sub(Mag(9125), Times(46, 100, result[k].modelmag_z)))
        /\ Lt(Sub(result[k].modelmag_r, result[k].modelmag_i), Mag(2000))
        /\ Lt(result[k].fiber2mag_i, Mag(21500))
        /\ F32Lt(rdev[k], RadiusLimit)]

\* The photometric part of the session: the globals the photometric cell
\* and the cut cell assign, and the last auxilliary_colors call made on
\* its own.
NoPhot ==
    [cell |-> "none", bound |-> FALSE, result |-> <<>>, rdev_i |-> <<>>,
     auxcolor |-> <<>>, masked |-> FALSE, LOWZ |-> <<>>, CMASS |-> <<>>,
     exc |-> "none",
     data |-> [shape |-> 0, modelmag_g |-> <<>>, modelmag_r |-> <<>>,
               modelmag_i |-> <<>>],
     aux |-> <<>>]

\* The else: branch of the photometric cell on a response that parses to
\* the table `rows`.
photo_cell(p, rows) ==
    LET aux == auxilliary_colors(Columns(rows))
    IN  [p EXCEPT !.cell = "photo", !.bound = TRUE, !.result = rows,
                  !.rdev_i = rdev_i(rows), !.auxcolor = aux.aux, !.exc = aux.exc]

\* A faulty variant: an object already in LOWZ is kept out of CMASS.
cut_cell_Exclusive(p) ==
    IF ~p.bound THEN [p EXCEPT !.cell = "cuts", !.exc = "NameError"]
    ELSE LET lowz == LOWZ(p.result, p.auxcolor)
             cmass == CMASS(p.result, p.auxcolor, p.rdev_i)
         IN  [p EXCEPT !.cell = "cuts", !.exc = "none", !.masked = TRUE,
                       !.LOWZ = lowz,
                       !.CMASS = [k \in 1..Len(cmass) |-> cmass[k] /\ ~lowz[k]]]

\* The cut cell: NameError if `result` has never been assigned.
cut_cell(p) ==
    IF ~p.bound THEN [p EXCEPT !.cell = "cuts", !.exc = "NameError"]
    ELSE [p EXCEPT !.cell = "cuts", !.exc = "none", !.masked = TRUE,
                   !.LOWZ = LOWZ(p.result, p.auxcolor),
                   !.CMASS = CMASS(p.result, p.auxcolor, p.rdev_i)]

\* An exception of the interpreter or of numpy.
Builtin(type, msg) == [type |-> type, msg |-> msg, has_message |-> FALSE]

\* The cut cell run on whatever the globals hold at the time.  The first
\* thing its first expression evaluates is result['cmodelmag_r']: NameError
\* if result is unbound, TypeError if it is the str of the row count cell,
\* ValueError if it is a table without that column; then auxcolor and
\* rdev_i are read, and arrays of different lengths do not combine.  LOWZ
\* is assigned before CMASS is computed.
cuts_cell(globals) ==
    LET c == [NoCell EXCEPT !.name = "cuts"]
        result == globals["result"]
        auxcolor == globals["auxcolor"]
        rdev == globals["rdev_i"]
        lowz == Broadcast(result.n, auxcolor.n)
        cmass == Broadcast(lowz, rdev.n)
        fail(e) == [cell |-> [c EXCEPT !.exc = e], nb |-> globals]
        bound == [globals EXCEPT !["LOWZ"] = Data(result.q, lowz)]
    IN  CASE result = Unbound ->
               fail(Builtin("NameError", "name 'result' is not defined"))
          [] result.q = "count" ->
               fail(Builtin("TypeError", "string indices must be integers"))
          [] result.q # "photo" ->
               fail(Builtin("ValueError", "no field of name cmodelmag_r"))
          [] auxcolor = Unbound ->
               fail(Builtin("NameError", "name 'auxcolor' is not defined"))
          [] lowz = 0 ->
               fail(Builtin("ValueError", "operands could not be broadcast together"))
          [] rdev = Unbound ->
               [cell |-> [c EXCEPT !.exc = Builtin("NameError",
                                                   "name 'rdev_i' is not defined")],
                nb |-> bound]
          [] cmass = 0 ->
               [cell |-> [c EXCEPT !.exc = Builtin("ValueError",
                                        "operands could not be broadcast together")],
                nb |-> bound]
          [] OTHER ->
               [cell |-> c, nb |-> [bound EXCEPT !["CMASS"] = Data(result.q, cmass)]]

\* Column j of a call made on auxilliary_colors directly: n magnitudes
\* that differ from entry to entry.
Column(j, n) == [k \in 1..n |-> Mag(18000 + 1000 * j + 10 * k)]

\* ------------------------------------------------------ boss_target1 ----

RECURSIVE BitAnd(_, _)
\* a & b on non-negative integers.
BitAnd(a, b) ==
    IF a = 0 \/ b = 0 THEN 0
    ELSE (a % 2) * (b % 2) + 2 * BitAnd(a \div 2, b \div 2)

\* The rows of specobj the server holds: a target bit mask, and whether the
\* row passes scienceprimary = 1 AND zwarning_noqso = 0 AND
\* class_noqso = 'GALAXY'.
SpecObjRows ==
    [boss_target1 : {0, 1, 2, 3, 5, 6}, galaxy : {TRUE}]
    \cup {[boss_target1 |-> 3, galaxy |-> FALSE]}

SpecObjTables == UNION {[1..n -> SpecObjRows] : n \in 1..MaxBatch}

\* The cells that query specobj, and the bit each of q_lowz and q_cmass is
\* formatted with.
TargetCells == {"boss_target1", "lowz", "cmass"}
TargetBit(name) == IF name = "lowz" THEN 1 ELSE 2

\* A faulty variant: the rows whose mask equals the bit.
Where_Equals(name, row) ==
    IF name = "boss_target1" THEN row.boss_target1 # 0
    ELSE row.boss_target1 = TargetBit(name) /\ row.galaxy

\* The WHERE clause of each query, as the server evaluates it on a row.
Where(name, row) ==
    IF name = "boss_target1" THEN row.boss_target1 # 0
    ELSE BitAnd(row.boss_target1, TargetBit(name)) # 0 /\ row.galaxy

RECURSIVE Select(_, _)
\* The rows of a table that pass a query's WHERE clause, in table order
\* (tables here are far shorter than the LIMIT).
Select(name, table) ==
    IF table = <<>> THEN <<>>
    ELSE (IF Where(name, Head(table)) THEN <<Head(table)>> ELSE <<>>)
            \o Select(name, Tail(table))

\* The values the count cell loops over.
Masks == {1, 5, 6, 9, 14, 15, 33, 41, 133, 134, 135, 140, 141, 142}

\* (boss_target1 == mask).sum() for each mask of the loop.
value_counts(boss_target1) ==
    [mask \in Masks |->
        Cardinality({k \in 1..Len(boss_target1) : boss_target1[k] = mask})]

NoSpecObj ==
    [table |-> <<>>, bound |-> FALSE, boss_target1 |-> <<>>, counted |-> FALSE,
     counts |-> [mask \in Masks |-> 0], lowz |-> <<>>, cmass |-> <<>>,
     ran |-> {}, exc |-> "none"]

\* The else: branch of a cell that queries specobj, on the rows returned.
target_cell(s, name, rows) ==
    CASE name = "boss_target1" ->
           [s EXCEPT !.bound = TRUE, !.ran = @ \cup {name},
                     !.boss_target1 = [k \in 1..Len(rows) |-> rows[k].boss_target1]]
      [] name = "lowz" -> [s EXCEPT !.lowz = rows, !.ran = @ \cup {name}]
      [] OTHER -> [s EXCEPT !.cmass = rows, !.ran = @ \cup {name}]

\* The count cell: NameError if boss_target1 has never been assigned.
mask_count_cell(s) ==
    IF ~s.bound THEN [s EXCEPT !.exc = "NameError"]
    ELSE [s EXCEPT !.exc = "none", !.counted = TRUE,
                   !.counts = value_counts(s.boss_target1)]

\* ------------------------------------------------- the notebook kernel ----

Init ==
    /\ FrameInit
    /\ spectrum = NoSpectrum
    /\ nb = [g \in Globals |-> Unbound]
    /\ cell = NoCell
    /\ phot = NoPhot
    /\ specobj = NoSpecObj

\* The (plate, mjd) pairs asked for, with the default run2d and sas.
PlateMjd == {<<4055, 55359>>, <<266, 51630>>}

\* A top-level call that runs to its end in one step of the kernel's thread.
Begin(s) ==
    /\ Resting(MainThread)
    /\ ncalls < MaxCalls
    /\ ncalls' = ncalls + 1
    /\ InSection(s)
    /\ section' = s

\* asinh_image(image, band), called on its own.
AsinhImageCall ==
    /\ Begin("images")
    /\ \E image \in Images, band \in {a.band : a \in FrameArgs} :
          LET r == asinh_image(image, band)
          IN  /\ frame' = [frame EXCEPT ![MainThread] =
                              [NoFrame EXCEPT !.fn = "asinh_image", !.ret = image,
                                              !.args = [NoArgs EXCEPT !.band = band],
                                              !.shown = r.mag, !.exc = r.exc,
                                              !.array_ops = r.array_ops]]
              /\ pc' = [pc EXCEPT ![MainThread] =
                           IF r.exc = "none" THEN "done" ELSE "raised"]
    /\ last' = Summary(frame[MainThread])
    /\ UNCHANGED <<extract_frame_cache, before, hist, requested, kernel_vars>>

ExtractSpectrumCall ==
    /\ Begin("spectra")
    /\ \E pm \in PlateMjd, fiber \in Fibers, served \in Served :
          spectrum' = extract_spectrum(pm[1], pm[2], fiber, "v5_10_0",
                                       "sdss_dr14://", served)
    /\ UNCHANGED <<frame_vars, nb, cell, phot, specobj>>

PlotSpectrumCall ==
    /\ Begin("spectra")
    /\ \E pm \in PlateMjd, fiber \in Fibers, showsky \in BOOLEAN, served \in Served :
          spectrum' = plot_spectrum(pm[1], pm[2], fiber, showsky, "v5_10_0",
                                    "sdss_dr14://", served)
    /\ UNCHANGED <<frame_vars, nb, cell, phot, specobj>>

\* One of the four cells that query inside try/except.
TryQueryCell ==
    /\ Begin("queries")
    /\ \E name \in TryCells, o \in QcOutcomes :
          LET r == try_query_cell(name, nb, o)
          IN  cell' = r.cell /\ nb' = r.nb
    /\ UNCHANGED <<frame_vars, spectrum, phot, specobj>>

CountCell ==
    /\ Begin("queries")
    /\ \E o \in QcOutcomes :
          LET r == count_cell(nb, o)
          IN  cell' = r.cell /\ nb' = r.nb
    /\ UNCHANGED <<frame_vars, spectrum, phot, specobj>>

\* The notebook: every call is made by the kernel's one thread.
Next ==
    \/ ExtractFrameCall(MainThread)
    \/ DisplayFrameCall(MainThread)
    \/ EfCheck(MainThread)
    \/ EfGetRaises(MainThread)
    \/ EfGetReturns(MainThread)
    \/ EfStore(MainThread)
    \/ EfReturn(MainThread)
    \/ DfShow(MainThread)
    \/ AsinhImageCall
    \/ ExtractSpectrumCall
    \/ PlotSpectrumCall
    \/ TryQueryCell
    \/ CountCell

Spec == Init /\ [][Next]_vars

\* A host that calls extract_frame from two threads with no lock.
NextMT ==
    \E t \in Threads :
        \/ ExtractFrameCall(t)
        \/ EfCheck(t)
        \/ EfGetRaises(t)
        \/ EfGetReturns(t)
        \/ EfStore(t)
        \/ EfReturn(t)

SpecMT == Init /\ [][NextMT]_vars

\* extract_frame over runs and fields of every width.
NextWide ==
    \/ ExtractFrameWideCall(MainThread)
    \/ EfCheck(MainThread)
    \/ EfGetRaises(MainThread)
    \/ EfGetReturns(MainThread)
    \/ EfStore(MainThread)
    \/ EfReturn(MainThread)

SpecWide == Init /\ [][NextWide]_vars

\* extract_frame over requests made of the same digits.
NextKeys ==
    \/ ExtractFrameKeyCall(MainThread)
    \/ EfCheck(MainThread)
    \/ EfGetRaises(MainThread)
    \/ EfGetReturns(MainThread)
    \/ EfStore(MainThread)
    \/ EfReturn(MainThread)

SpecKeys == Init /\ [][NextKeys]_vars

\* What qc.query does in a cell whose query selects `rows`: it returns
\* them, or raises.
Responses(rows) ==
    {[kind |-> "rows", n |-> Len(rows), err |-> NoError]}
    \cup {[kind |-> "raise", n |-> 0, err |-> e] : e \in QcErrors}

\* The photometric cell, with the table its response parses to.  The table
\* is fetched once in a session.
PhotoTableCell ==
    /\ Begin("cuts")
    /\ section = "none"
    /\ \E rows \in PhotoTables :
          \E o \in Responses(rows) :
             LET r == try_query_cell("photo", nb, o)
             IN  /\ cell' = r.cell
                 /\ nb' = r.nb
                 /\ phot' = IF o.kind = "raise" THEN [phot EXCEPT !.cell = "photo"]
                            ELSE photo_cell(phot, rows)
    /\ UNCHANGED <<frame_vars, spectrum, specobj>>

\* The cell that computes LOWZ and CMASS.
CutCell ==
    /\ Begin("cuts")
    /\ phot' = cut_cell(phot)
    /\ UNCHANGED <<frame_vars, spectrum, nb, cell, specobj>>

\* auxilliary_colors called on its own, on data whose shape and columns may
\* disagree in length.
AuxColorsCall ==
    /\ Begin("colors")
    /\ \E n \in 1..MaxBatch, g \in 1..MaxBatch, r \in 1..MaxBatch, i \in 1..MaxBatch :
          LET data == [shape |-> n, modelmag_g |-> Column(3, g),
                       modelmag_r |-> Column(2, r), modelmag_i |-> Column(1, i)]
              a == auxilliary_colors(data)
          IN  phot' = [NoPhot EXCEPT !.cell = "auxilliary_colors", !.data = data,
                                     !.aux = a.aux, !.exc = a.exc]
    /\ UNCHANGED <<frame_vars, spectrum, nb, cell, specobj>>

NextCuts ==
    \/ PhotoTableCell
    \/ CutCell
    \/ AuxColorsCall

SpecCuts == Init /\ [][NextCuts]_vars

\* The cut cell, run at any point of a session of query cells.
CutsCell ==
    /\ Begin("queries")
    /\ LET r == cuts_cell(nb)
       IN  cell' = r.cell /\ nb' = r.nb
    /\ UNCHANGED <<frame_vars, spectrum, phot, specobj>>

\* The catalog cells, run and run again in any order.
NextSession ==
    \/ TryQueryCell
    \/ CountCell
    \/ CutsCell

SpecSession == Init /\ [][NextSession]_vars

\* Spectra read in a session that also reads frames: top-level calls in
\* one behaviour, and what the storage answers a spectrum call with (it
\* raises, or serves a whole plate file).
MaxMixedCalls == 3
MixedServed == {f \in Served : f.kind = "raise"} \cup {SpFile(7, NPix, NPix, NPix)}

\* A spectrum call between frame calls: it leaves the session where it is.
BeginAmongFrames ==
    /\ Resting(MainThread)
    /\ ncalls < MaxMixedCalls
    /\ ncalls' = ncalls + 1
    /\ section \in {"none", "images"}
    /\ UNCHANGED section

\* The call repeats the arguments of the call before it.
Repeats(pm, fiber) ==
    /\ spectrum.fn # "none"
    /\ spectrum.plate = pm[1] /\ spectrum.mjd = pm[2] /\ spectrum.fiber = fiber

\* A faulty variant: extract_spectrum keeps what it read in the table of
\* the frames, under vopath, and reads nothing when the path is there.
ExtractSpectrumAmongFrames_Memoized ==
    /\ BeginAmongFrames
    /\ \E pm \in PlateMjd, served \in MixedServed :
          LET s == extract_spectrum(pm[1], pm[2], 1, "v5_10_0", "sdss_dr14://", served)
              hit == s.vopath \in DOMAIN extract_frame_cache
          IN  /\ spectrum' = [s EXCEPT !.repeat = Repeats(pm, 1),
                                       !.gets = IF hit THEN 0 ELSE 1]
              /\ extract_frame_cache' =
                     IF s.returned /\ ~hit
                     THEN DictSet(extract_frame_cache, s.vopath, NoImage)
                     ELSE extract_frame_cache
    /\ UNCHANGED <<pc, frame, last, before, hist, requested, nb, cell, phot, specobj>>

\* extract_spectrum(plate, mjd, 1) called between frame calls.
ExtractSpectrumAmongFrames ==
    /\ BeginAmongFrames
    /\ \E pm \in PlateMjd, served \in MixedServed :
          spectrum' = [extract_spectrum(pm[1], pm[2], 1, "v5_10_0", "sdss_dr14://",
                                        served)
                          EXCEPT !.repeat = Repeats(pm, 1)]
    /\ UNCHANGED <<frame_vars, nb, cell, phot, specobj>>

\* plot_spectrum(plate, mjd, 1, showsky) called between frame calls.
PlotSpectrumAmongFrames ==
    /\ BeginAmongFrames
    /\ \E pm \in PlateMjd, showsky \in BOOLEAN, served \in MixedServed :
          spectrum' = [plot_spectrum(pm[1], pm[2], 1, showsky, "v5_10_0",
                                     "sdss_dr14://", served)
                          EXCEPT !.repeat = Repeats(pm, 1)]
    /\ UNCHANGED <<frame_vars, nb, cell, phot, specobj>>

\* A session that reads frames and spectra in any order.
NextMixed ==
    \/ ExtractFrameCall(MainThread)
    \/ EfCheck(MainThread)
    \/ EfGetRaises(MainThread)
    \/ EfGetReturns(MainThread)
    \/ EfStore(MainThread)
    \/ EfReturn(MainThread)
    \/ ExtractSpectrumAmongFrames
    \/ PlotSpectrumAmongFrames

SpecMixed == Init /\ [][NextMixed]_vars

\* A cell that queries specobj.  The server's table is the same throughout
\* a session.
TargetCell ==
    /\ Begin("targets")
    /\ \E name \in TargetCells :
       \E table \in (IF specobj.table = <<>> THEN SpecObjTables ELSE {specobj.table}) :
          /\ \E o \in Responses(Select(name, table)) :
                LET r == try_query_cell(name, nb, o)
                    s == [specobj EXCEPT !.table = table]
                IN  /\ cell' = r.cell
                    /\ nb' = r.nb
                    /\ specobj' = IF o.kind = "raise" THEN s
                                  ELSE target_cell(s, name, Select(name, table))
    /\ UNCHANGED <<frame_vars, spectrum, phot>>

\* The cell that counts the rows of each mask value.
MaskCountCell ==
    /\ Begin("targets")
    /\ specobj' = mask_count_cell(specobj)
    /\ UNCHANGED <<frame_vars, spectrum, nb, cell, phot>>

NextTargets ==
    \/ TargetCell
    \/ MaskCountCell

SpecTargets == Init /\ [][NextTargets]_vars

\* ------------------------------------------------------------ claims ----

\* The call of the kernel's thread, and whether it has ended.
F == frame[MainThread]
Returned == pc[MainThread] = "done"
Raised == pc[MainThread] = "raised"
Finished == Returned \/ Raised

FrameFns == {"extract_frame", "display_frame"}

\* The exceptions of the fetch, the decompression and the FITS decode.
FetchFailed(exc) == exc \in {"StorageError", "OSError", "FITSError"}

\* The kernel thread's previous call and its finished call were frame calls
\* on the same resolved path.
ConsecutiveSame ==
    /\ last.fn \in FrameFns
    /\ F.fn \in FrameFns
    /\ Finished
    /\ last.fm = F.fm

\* C1, as stated: the number of successful fetches (sc.get calls that
\* return) per resolved path never exceeds 1.
C1_SuccessfulFetchesAtMostOne ==
    \A p \in FramePaths : hist[p].ok <= 1

\* C1, amended: of two consecutive calls on the same path, the first of
\* which missed and got its frame, the first fetches once and the second is
\* a hit that fetches nothing; no hit ever fetches; and per path at most
\* one fetch is decoded and stored.
C1_Memoized ==
    /\ (ConsecutiveSame /\ ~last.hit /\ ~FetchFailed(last.exc))
          => (last.gets = 1 /\ F.hit /\ F.gets = 0)
    /\ (F.fn \in FrameFns /\ F.hit) => F.gets = 0
    /\ \A p \in FramePaths : hist[p].stores <= 1

\* C1: a miss that fetched and decoded, then the same call again, served
\* from the table.
C1_Witness ==
    /\ ConsecutiveSame
    /\ Returned
    /\ last.fn = "extract_frame" /\ F.fn = "extract_frame"
    /\ ~last.hit /\ last.gets = 1 /\ last.exc = "none"
    /\ F.hit /\ F.gets = 0
    /\ hist[F.fm].ok = 1

\* C2: a path that is a key of extract_frame_cache stays one in every step,
\* with the same array under it.
C2_NeverEvicted ==
    [][\A p \in DOMAIN extract_frame_cache :
          /\ p \in DOMAIN extract_frame_cache'
          /\ extract_frame_cache'[p] = extract_frame_cache[p]]_vars

\* C2: two frames are in the table and a later display_frame with asinh=True
\* on one of them has returned, the table being what it was before.
C2_Witness ==
    /\ Cardinality(DOMAIN extract_frame_cache) = 2
    /\ Returned
    /\ F.fn = "display_frame" /\ F.asinh /\ F.hit
    /\ F.shown # F.ret
    /\ extract_frame_cache = before

\* C3: a call that the fetch or a decoder fails ends with that exception
\* and the table as it was when the call began, without the path; and the
\* next call on the same path invokes sc.get again.
C3_FailsCleanly ==
    /\ (F.fn \in FrameFns /\ Finished /\ F.gets = 1 /\ F.fetched = 0)
          => (Raised /\ F.exc = "StorageError")
    /\ (F.fn \in FrameFns /\ Finished /\ DecodeError(F.blob) # "none")
          => (Raised /\ F.exc = DecodeError(F.blob))
    /\ (F.fn \in FrameFns /\ Raised /\ FetchFailed(F.exc))
          => (extract_frame_cache = before /\ ~Cached(F.fm))
    /\ (ConsecutiveSame /\ FetchFailed(last.exc)) => F.gets = 1

\* C3: a call failed in the FITS decode after a successful fetch, and the
\* same call made again has fetched once more and returned.
C3_Witness ==
    /\ ConsecutiveSame
    /\ last.exc = "FITSError" /\ last.fetched = 1
    /\ Returned /\ F.gets = 1
    /\ Cached(F.fm)

\* C4: when qc.query raises in one of the four try/except query cells, the
\* cell ends with that same exception, message included.
C4_SurfacedUnchanged ==
    (cell.name \in TryCells /\ cell.qc_err # NoError) => cell.exc = cell.qc_err

\* C5: asinh_image with a band that has no softening parameter raises
\* KeyError having done no array computation.
C5_RejectsBeforeComputing ==
    (F.fn = "asinh_image" /\ Finished /\ F.args.band \notin SoftBands)
       => (Raised /\ F.exc = "KeyError" /\ F.array_ops = 0)

\* C6: extract_spectrum on a decoded file of nrows rows returns nothing and
\* raises when fiber < 1 or fiber > nrows.
C6_FiberValidated ==
    (/\ spectrum.fn = "extract_spectrum"
     /\ spectrum.nrows > 0
     /\ (spectrum.fiber < 1 \/ spectrum.fiber > spectrum.nrows))
       => (~spectrum.returned /\ spectrum.exc # "none")

\* C7: when two threads have both returned from extract_frame on the same
\* path, in whatever order their steps ran, the table holds that path, once.
C7_OneEntryAfterRace ==
    \A t, u \in Threads :
        (t # u /\ pc[t] = "done" /\ pc[u] = "done" /\ frame[t].fm = frame[u].fm)
           => /\ Cached(frame[t].fm)
              /\ Cardinality({p \in DOMAIN extract_frame_cache : p = frame[t].fm}) = 1

\* C7: both threads found the path absent, both invoked sc.get with
\* success, and both have returned.
C7_Witness ==
    /\ \A t \in Threads : /\ pc[t] = "done"
                          /\ ~frame[t].hit
                          /\ frame[t].gets = 1
    /\ frame["t1"].fm = frame["t2"].fm
    /\ hist[frame["t1"].fm].ok = 2
    /\ hist[frame["t1"].fm].stores = 2

\* C8, as stated: the table never holds more entries than distinct
\* (run, camcol, field, band) tuples have been requested.
C8_SizeWithinTuples ==
    Cardinality(DOMAIN extract_frame_cache)
       <= Cardinality({TupleOf(a) : a \in requested})

\* C8, amended: every key is the path of a requested
\* (sas, run, camcol, field, band), so the table never holds more entries
\* than distinct such combinations have been requested.
C8_SizeWithinRequests ==
    /\ DOMAIN extract_frame_cache \subseteq {PathOf(a) : a \in requested}
    /\ Cardinality(DOMAIN extract_frame_cache) <= Cardinality(requested)

\* C8: one (run, camcol, field, band) tuple requested under two roots, and
\* two entries in the table.
C8_Witness ==
    /\ Cardinality({TupleOf(a) : a \in requested}) = 1
    /\ Cardinality(requested) = 2
    /\ Cardinality(DOMAIN extract_frame_cache) = 2

\* C9: within one call, extract_frame and extract_spectrum invoke sc.get at
\* most once and a query cell invokes qc.query at most once.
C9_NoRetries ==
    /\ F.gets <= 1
    /\ spectrum.gets <= 1
    /\ cell.qc_calls <= 1

\* C9: a frame call whose one sc.get raised has ended with that failure.
C9_Witness ==
    /\ F.fn \in FrameFns
    /\ Raised
    /\ F.exc = "StorageError"
    /\ F.gets = 1

\* C10: the four arrays extract_spectrum returns have one length (stated
\* for the fibers 1..nrows, so that the fibers of C6 play no part).
C10_EqualLengths ==
    (/\ spectrum.fn = "extract_spectrum"
     /\ spectrum.returned
     /\ spectrum.fiber \in 1..spectrum.nrows)
       => /\ Len(spectrum.wavelength) = Len(spectrum.flux)
          /\ Len(spectrum.flux) = Len(spectrum.ivar)
          /\ Len(spectrum.ivar) = Len(spectrum.sky)

\* The cut cell has computed the masks of the table in `result`.
Masked == phot.cell = "cuts" /\ phot.masked

\* The four clauses of LOWZ on a row and its colors, in whole numbers of
\* 1/2400000 mag: 3*cmodel_r < 40.5 + 10*c_par, -0.2 < c_perp < 0.2,
\* 16.0 < cmodel_r < 19.6, psf_r - cmodel_r > 0.3.
LowzClauses(row, aux) ==
    /\ ~row.cmodelmag_r.nan /\ ~row.psfmag_r.nan
    /\ ~aux.c_par.nan /\ ~aux.c_perp.nan
    /\ 3 * row.cmodelmag_r.v < 97200000 + 10 * aux.c_par.v
    /\ aux.c_perp.v > -480000 /\ aux.c_perp.v < 480000
    /\ row.cmodelmag_r.v > 38400000 /\ row.cmodelmag_r.v < 47040000
    /\ row.psfmag_r.v - row.cmodelmag_r.v > 720000

\* The first seven clauses of CMASS, likewise: 10*cmodel_i < 198.6 +
\* 16*(d_perp - 0.8), 17.5 < cmodel_i < 19.9, d_perp > 0.55,
\* 10*(psf_i - model_i) > 2 + 2*(20 - model_i),
\* 50*(psf_z - model_z) > 456.25 - 23*model_z, model_r - model_i < 2,
\* fiber2_i < 21.5.
CmassSeven(row, aux) ==
    /\ ~row.cmodelmag_i.nan /\ ~row.psfmag_i.nan /\ ~row.psfmag_z.nan
    /\ ~row.modelmag_r.nan /\ ~row.modelmag_i.nan /\ ~row.modelmag_z.nan
    /\ ~row.fiber2mag_i.nan /\ ~aux.d_perp.nan
    /\ 10 * row.cmodelmag_i.v < 476640000 + 16 * (aux.d_perp.v - 1920000)
    /\ row.cmodelmag_i.v > 42000000 /\ row.cmodelmag_i.v < 47760000
    /\ aux.d_perp.v > 1320000
    /\ 10 * (row.psfmag_i.v - row.modelmag_i.v)
          > 4800000 + 2 * (48000000 - row.modelmag_i.v)
    /\ 50 * (row.psfmag_z.v - row.modelmag_z.v) > 1095000000 - 23 * row.modelmag_z.v
    /\ row.modelmag_r.v - row.modelmag_i.v < 4800000
    /\ row.fiber2mag_i.v < 51600000

\* r_dev_i < 20 on a single: 20 is 10485760 * 2^-19.
RadiusBelow20(r) ==
    /\ ~r.nan
    /\ (r.m = 0 \/ r.e < -19 \/ (r.e = -19 /\ r.m < 10485760))

\* C11: LOWZ is true of a row exactly when its four clauses hold; a row
\* with cmodel_r >= 19.6 or cmodel_r <= 16.0 is not in LOWZ.
C11_LowzIffClauses ==
    Masked =>
       /\ Len(phot.LOWZ) = Len(phot.result)
       /\ \A k \in 1..Len(phot.result) :
             /\ phot.LOWZ[k] <=> LowzClauses(phot.result[k], phot.auxcolor[k])
             /\ (/\ ~phot.result[k].cmodelmag_r.nan
                 /\ (\/ phot.result[k].cmodelmag_r.v >= 47040000
                     \/ phot.result[k].cmodelmag_r.v <= 38400000))
                   => ~phot.LOWZ[k]

\* C11: the masks of a table holding a row in LOWZ and the same row with
\* cmodel_r = 19.6, which is not.
C11_Witness ==
    /\ Masked
    /\ \E k, l \in 1..Len(phot.result) :
          /\ phot.result[k] = BaseRow /\ phot.LOWZ[k]
          /\ phot.result[l] = [BaseRow EXCEPT !.cmodelmag_r = Mag(19600)]
          /\ ~phot.LOWZ[l]

\* C12: CMASS is true of a row exactly when its eight clauses hold.
C12_CmassIffClauses ==
    Masked =>
       /\ Len(phot.CMASS) = Len(phot.result)
       /\ \A k \in 1..Len(phot.result) :
             phot.CMASS[k] <=> (/\ CmassSeven(phot.result[k], phot.auxcolor[k])
                                /\ RadiusBelow20(phot.rdev_i[k]))

\* C12: the masks of a table holding a row in CMASS and the same row with
\* fiber2_i = 21.5, which is not.
C12_Witness ==
    /\ Masked
    /\ \E k, l \in 1..Len(phot.result) :
          /\ phot.result[k] = BaseRow /\ phot.CMASS[k]
          /\ phot.result[l] = [BaseRow EXCEPT !.fiber2mag_i = Mag(21500)]
          /\ ~phot.CMASS[l]

\* The columns only LOWZ reads, and the columns only CMASS reads.
OnlyLowz == {"cmodelmag_r", "psfmag_r"}
OnlyCmass == {"cmodelmag_i", "psfmag_i", "psfmag_z", "modelmag_z", "fiber2mag_i",
              "devrad_i"}

\* C13: the two masks do not exclude each other and neither depends on the
\* columns only the other reads: the base row is in both, stays in LOWZ
\* whatever a CMASS-only column holds and in CMASS whatever a LOWZ-only
\* column holds; the row with fiber2_i = 21.5 is in LOWZ only, the row with
\* psf_r = 19.3 in CMASS only, the row with model g = 22.28 in neither.
C13_Independent ==
    Masked =>
       \A k \in 1..Len(phot.result) :
          LET row == phot.result[k]
          IN  /\ row = BaseRow => phot.LOWZ[k] /\ phot.CMASS[k]
              /\ (\E f \in OnlyCmass : \E x \in Alternatives[f] :
                     row = [BaseRow EXCEPT ![f] = x]) => phot.LOWZ[k]
              /\ (\E f \in OnlyLowz : \E x \in Alternatives[f] :
                     row = [BaseRow EXCEPT ![f] = x]) => phot.CMASS[k]
              /\ row = [BaseRow EXCEPT !.fiber2mag_i = Mag(21500)]
                    => phot.LOWZ[k] /\ ~phot.CMASS[k]
              /\ row = [BaseRow EXCEPT !.psfmag_r = Mag(19300)]
                    => ~phot.LOWZ[k] /\ phot.CMASS[k]
              /\ row = [BaseRow EXCEPT !.modelmag_g = Mag(22280)]
                    => ~phot.LOWZ[k] /\ ~phot.CMASS[k]

\* C13: a table with a row in both masks and a row in exactly one.
C13_Witness ==
    /\ Masked
    /\ \E k, l \in 1..Len(phot.result) :
          /\ phot.LOWZ[k] /\ phot.CMASS[k]
          /\ phot.LOWZ[l] # phot.CMASS[l]

\* C14: devrad_i = 7.92 gives r_dev_i = 20.0 exactly and CMASS false; the
\* row whose other seven clauses hold is in CMASS with devrad_i = 7.91.
C14_RadiusBoundary ==
    ((phot.cell = "photo" /\ phot.bound) \/ Masked) =>
       \A k \in 1..Len(phot.result) :
          /\ phot.result[k].devrad_i = F32(792, 100)
                => /\ phot.rdev_i[k] = [nan |-> FALSE, m |-> 10485760, e |-> -19]
                   /\ Masked => ~phot.CMASS[k]
          /\ (/\ Masked
              /\ phot.result[k].devrad_i = F32(791, 100)
              /\ CmassSeven(phot.result[k], phot.auxcolor[k]))
                => phot.CMASS[k]

\* C14: the masks of a table holding the base row with devrad_i = 7.92 and
\* with devrad_i = 7.91.
C14_Witness ==
    /\ Masked
    /\ \E k, l \in 1..Len(phot.result) :
          /\ phot.result[k] = [BaseRow EXCEPT !.devrad_i = F32(792, 100)]
          /\ ~phot.CMASS[k]
          /\ phot.result[l] = BaseRow
          /\ phot.CMASS[l]

\* A column LOWZ reads, or CMASS reads, holds NaN in this row.
NaNForLowz(row) ==
    \E f \in {"cmodelmag_r", "psfmag_r", "modelmag_g", "modelmag_r", "modelmag_i"} :
        row[f].nan
NaNForCmass(row) ==
    \/ \E f \in {"cmodelmag_i", "psfmag_i", "psfmag_z", "fiber2mag_i", "modelmag_g",
                 "modelmag_r", "modelmag_i", "modelmag_z"} : row[f].nan
    \/ row.devrad_i.nan

RECURSIVE Matching(_, _, _)
\* The rows of a table, in order, whose mask has the bit of value 2^b set
\* and which pass the other conditions of the query.
Matching(table, b, k) ==
    IF k > Len(table) THEN <<>>
    ELSE (IF (table[k].boss_target1 \div (2 ^ b)) % 2 = 1 /\ table[k].galaxy
          THEN <<table[k]>> ELSE <<>>) \o Matching(table, b, k + 1)

\* What q_lowz and q_cmass select is decided by the bit: bit 0 for LOWZ,
\* bit 1 for CMASS, whatever other bits a row has.
SelectedByBit ==
    /\ "lowz" \in specobj.ran => specobj.lowz = Matching(specobj.table, 0, 1)
    /\ "cmass" \in specobj.ran => specobj.cmass = Matching(specobj.table, 1, 1)

\* C16, as stated: in the queries and in the count cell alike a row is a
\* member of the class whose bit is set: the rows counted for LOWZ (mask
\* value 1) are the rows of boss_target1 with bit 0 set.
C16_MembershipByBitEverywhere ==
    /\ SelectedByBit
    /\ specobj.counted =>
          specobj.counts[1]
             = Cardinality({k \in 1..Len(specobj.boss_target1) :
                               specobj.boss_target1[k] % 2 = 1})

\* C16, amended: q_lowz and q_cmass select by the bit; the count cell
\* counts, for each value of its list, the rows whose boss_target1 equals
\* that value.
C16_MembershipByBitInQueries ==
    /\ SelectedByBit
    /\ specobj.counted =>
          \A mask \in Masks :
             specobj.counts[mask]
                = Cardinality({k \in 1..Len(specobj.boss_target1) :
                                  specobj.boss_target1[k] = mask})

\* C16: on a table with a row of mask 3 and a row of mask 5, q_lowz has
\* selected both and the count cell has counted one row for 5 and none
\* for 1.
C16_Witness ==
    /\ specobj.counted
    /\ "lowz" \in specobj.ran
    /\ Len(specobj.lowz) = 2
    /\ {specobj.lowz[1].boss_target1, specobj.lowz[2].boss_target1} = {3, 5}
    /\ specobj.counts[5] = 1
    /\ specobj.counts[1] = 0

\* C17: auxilliary_colors fails when the g, r and i columns it is given
\* differ in length, and otherwise returns one record per row, record k
\* holding the colors of row k.
C17_ElementWiseOrFails ==
    phot.cell = "auxilliary_colors" =>
       LET g == phot.data.modelmag_g
           r == phot.data.modelmag_r
           i == phot.data.modelmag_i
           lengths == {Len(g), Len(r), Len(i)}
       IN  /\ Cardinality(lengths) > 1 => phot.exc # "none"
           /\ lengths = {phot.data.shape} =>
                 /\ phot.exc = "none"
                 /\ Len(phot.aux) = phot.data.shape
                 /\ \A k \in 1..Len(phot.aux) :
                       /\ phot.aux[k].c_par = c_par(g[k], r[k], i[k])
                       /\ phot.aux[k].c_perp = c_perp(g[k], r[k], i[k])
                       /\ phot.aux[k].d_perp = d_perp(g[k], r[k], i[k])

\* The photometric cell has bound result, rdev_i and auxcolor.
PhotoBound == phot.cell \in {"photo", "cuts"} /\ phot.bound

\* Rows k and l of result hold numbers for g, r and i and have the same r - i.
SameRI(k, l) ==
    LET a == phot.result[k]
        b == phot.result[l]
    IN  /\ \A f \in {"modelmag_g", "modelmag_r", "modelmag_i"} : ~a[f].nan /\ ~b[f].nan
        /\ a.modelmag_r.v - a.modelmag_i.v = b.modelmag_r.v - b.modelmag_i.v

\* (g - r) of row k less (g - r) of row l.
DeltaGR(k, l) ==
    LET a == phot.result[k]
        b == phot.result[l]
    IN  (a.modelmag_g.v - a.modelmag_r.v) - (b.modelmag_g.v - b.modelmag_r.v)

\* C21: between two rows with the same r - i whose g - r differ by delta,
\* c_perp differs by -0.25*delta and d_perp by -0.125*delta.
C21_LinearInGR ==
    PhotoBound =>
       \A k, l \in 1..Len(phot.result) :
          SameRI(k, l) =>
             /\ 4 * (phot.auxcolor[k].c_perp.v - phot.auxcolor[l].c_perp.v)
                   = 0 - DeltaGR(k, l)
             /\ 8 * (phot.auxcolor[k].d_perp.v - phot.auxcolor[l].d_perp.v)
                   = 0 - DeltaGR(k, l)

\* C21: the colors of a table holding the base row and the shifted row
\* (all of g, r, i moved, g - r larger by 0.1): c_perp is smaller by 0.025.
C21_Witness ==
    /\ PhotoBound
    /\ Len(phot.result) = 2
    /\ phot.result[1] = BaseRow
    /\ phot.result[2] = ShiftedRow
    /\ SameRI(1, 2)
    /\ DeltaGR(2, 1) = 240000
    /\ phot.auxcolor[2].c_perp.v - phot.auxcolor[1].c_perp.v = -60000

\* The asinh magnitudes of a linear array in a band.
Converted(image, band) == [pix |-> image.pix, units |-> "asinh_mag_" \o band]

\* C22: every array in the table is in linear flux units, whatever calls
\* have been made; a display_frame call leaves the table as it was when the
\* call began, but for the linear array a miss inserts; what extract_frame
\* hands back on a hit is the array the table held before; and what is
\* shown is that array, converted once if asinh is set and as it is if not.
C22_CacheStaysLinear ==
    /\ \A p \in DOMAIN extract_frame_cache :
          extract_frame_cache[p].units = "nanomaggies"
    /\ (F.fn \in FrameFns /\ Finished /\ F.ret # NoImage) =>
          /\ F.ret.units = "nanomaggies"
          /\ F.ret = extract_frame_cache[F.fm]
          /\ F.hit => F.ret = before[F.fm]
          /\ extract_frame_cache
                = IF F.hit THEN before ELSE DictSet(before, F.fm, F.ret)
    /\ (F.fn = "display_frame" /\ Returned) =>
          F.shown = IF F.asinh THEN Converted(F.ret, F.args.band) ELSE F.ret

\* C22: display_frame with asinh=True on a path, then display_frame with
\* asinh=False on the same path: the second is served from the table and
\* shows linear flux.
C22_Witness ==
    /\ ConsecutiveSame
    /\ last.fn = "display_frame" /\ last.asinh /\ last.exc = "none"
    /\ F.fn = "display_frame" /\ ~F.asinh
    /\ Returned /\ F.hit
    /\ F.shown.units = "nanomaggies"
    /\ F.shown = extract_frame_cache[F.fm]

\* C23: under one root, with non-negative numbers and a band among u, g, r,
\* i, z, a requested tuple shares its path with no other tuple; so when
\* extract_frame is served from the table, every request that could have
\* put the array there was for the tuple now asked for.
C23_KeyInjective ==
    LET valid(a) == /\ a.band \in SoftBands
                    /\ a.run >= 0 /\ a.camcol >= 0 /\ a.field >= 0
    IN  /\ \A a \in requested, b \in AllArgs :
              (valid(a) /\ valid(b) /\ a.sas = b.sas /\ PathOf(a) = PathOf(b))
                 => TupleOf(a) = TupleOf(b)
        /\ (F.fn = "extract_frame" /\ Returned /\ F.hit /\ valid(F.args)) =>
              \A a \in requested :
                 (valid(a) /\ a.sas = F.args.sas /\ PathOf(a) = F.fm)
                    => TupleOf(a) = TupleOf(F.args)

\* C23: run 1 with camcol 11 and run 11 with camcol 1 have both been
\* fetched and stored, under two keys, and the second request of one of
\* them has been served from the table.
C23_Witness ==
    /\ {<<a.run, a.camcol>> : a \in requested} = {<<1, 11>>, <<11, 1>>}
    /\ Cardinality(DOMAIN extract_frame_cache) = 2
    /\ F.fn = "extract_frame"
    /\ Returned /\ F.hit
    /\ F.ret = extract_frame_cache[F.fm]

\* A display_frame call for a band that asinh_image has no entry for.
BadBandDisplay == F.fn = "display_frame" /\ F.args.band \notin SoftBands

\* C24, as stated: a display_frame call with asinh set that fails for its
\* band has invoked sc.get, with success, before failing.
C24_AlwaysFetches ==
    (BadBandDisplay /\ F.asinh /\ Raised /\ F.exc = "KeyError")
       => (F.gets = 1 /\ F.fetched = 1)

\* C24, amended: in a display_frame call for a band outside u, g, r, i, z
\* nothing has failed while extract_frame runs; with asinh set the call fails with
\* KeyError only after extract_frame has returned, the array being in the
\* table (fetched and inserted by this very call on a miss, and found
\* there without any sc.get on a hit), and a failed fetch ends the call
\* with the fetch's error instead; without asinh the call never fails for
\* the band and shows the array.
C24_FetchBeforeBandCheck ==
    BadBandDisplay =>
       /\ pc[MainThread] \in {"ef_check", "ef_get", "ef_store", "ef_return", "df_show"}
             => F.exc = "none" /\ F.array_ops = 0
       /\ (Raised /\ F.exc = "KeyError") =>
             /\ F.asinh
             /\ F.ret # NoImage
             /\ Cached(F.fm)
             /\ F.hit => (F.gets = 0 /\ extract_frame_cache = before)
             /\ F.hit \/ (F.gets = 1 /\ F.fetched = 1 /\ hist[F.fm].stores = 1
                           /\ extract_frame_cache = DictSet(before, F.fm, F.ret))
       /\ (Finished /\ F.asinh) => Raised
       /\ (Finished /\ F.asinh /\ F.ret = NoImage) => FetchFailed(F.exc)
       /\ (Finished /\ ~F.asinh /\ F.ret # NoImage) => (Returned /\ F.shown = F.ret)
       /\ (Raised /\ ~F.asinh) => FetchFailed(F.exc)

\* C24: display_frame with asinh=True for band x has failed with KeyError
\* after fetching the frame and inserting it into the table.
C24_Witness ==
    /\ BadBandDisplay
    /\ F.asinh
    /\ Raised /\ F.exc = "KeyError"
    /\ ~F.hit /\ F.gets = 1 /\ F.fetched = 1
    /\ Cached(F.fm)
    /\ ~(F.fm \in DOMAIN before)

\* C25: a step in which one of the four try/except query cells runs and
\* its qc.query raises leaves every global of the notebook as it was,
\* bound or unbound, whether the except clause prints the message or fails
\* in its turn.
C25_FailedQueryChangesNothing ==
    [][(/\ ncalls' = ncalls + 1
        /\ section' = "queries"
        /\ cell'.name \in TryCells
        /\ cell'.qc_err # NoError) => nb' = nb]_vars

\* C25: the photometric cell has bound result, rdev_i and auxcolor, and the
\* LOWZ query cell run after it has failed: the three are as the
\* photometric cell left them and plate_lowz, mjd_lowz, fiber_lowz and
\* redshift_lowz are still unbound.
C25_Witness ==
    /\ cell.name = "lowz"
    /\ cell.qc_err # NoError
    /\ \A g \in {"result", "rdev_i", "auxcolor"} : nb[g] = Data("photo", 2)
    /\ \A g \in {"plate_lowz", "mjd_lowz", "fiber_lowz", "redshift_lowz"} :
          nb[g] = Unbound

\* C26: when the cut cell has run with result, rdev_i and auxcolor bound,
\* the three came from one response, the cell has not failed, and each
\* mask has as many entries as result has rows.
C26_SharedFromOneResponse ==
    (/\ cell.name = "cuts"
     /\ \A g \in {"result", "rdev_i", "auxcolor"} : nb[g] # Unbound)
       => /\ nb["rdev_i"] = nb["result"]
          /\ nb["auxcolor"] = nb["result"]
          /\ cell.exc = NoError
          /\ nb["LOWZ"] = nb["result"]
          /\ nb["CMASS"] = nb["result"]

\* C27: every step that is a call of extract_spectrum or plot_spectrum, a
\* repeat of the call before it included, invokes sc.get once and leaves
\* extract_frame_cache, with the frames already in it, as it was.
C27_SpectrumUnmemoized ==
    [][(ncalls' = ncalls + 1 /\ pc' = pc) =>
          /\ spectrum'.fn \in {"extract_spectrum", "plot_spectrum"}
          /\ spectrum'.gets = 1
          /\ extract_frame_cache' = extract_frame_cache]_vars

\* C27: with a frame in the table, extract_spectrum has been called twice
\* in a row with the same arguments and has returned, having invoked sc.get
\* in the second call as well; the frame is still in the table.
C27_Witness ==
    /\ spectrum.fn = "extract_spectrum"
    /\ spectrum.repeat
    /\ spectrum.returned
    /\ spectrum.gets = 1
    /\ Cardinality(DOMAIN extract_frame_cache) = 1
    /\ \A p \in DOMAIN extract_frame_cache : hist[p].stores = 1

\* C18: for a fiber in 1..nrows, the tuple extract_spectrum returns is
\* (wavelength, flux, ivar, sky) with flux row fiber-1 of block 0, ivar row
\* fiber-1 of block 1 and sky row fiber-1 of block 6 of the file served.
C18_BlocksAndRow ==
    (/\ spectrum.fn = "extract_spectrum"
     /\ spectrum.returned
     /\ spectrum.fiber \in 1..spectrum.nrows)
       => /\ Len(spectrum.ret) = 4
          /\ spectrum.ret[1] = spectrum.wavelength
          /\ \A i \in 2..4 :
                LET h == <<0, 0, 1, 6>>[i]
                IN  \A c \in 1..Len(spectrum.ret[i]) :
                        spectrum.ret[i][c] = 100 * h + 10 * spectrum.fiber + c

\* C18: extract_spectrum has returned the second fiber of a file of seven
\* blocks.
C18_Witness ==
    /\ spectrum.fn = "extract_spectrum"
    /\ spectrum.returned
    /\ spectrum.fiber = 2
    /\ spectrum.ret[2] # <<>> /\ spectrum.ret[3] # <<>> /\ spectrum.ret[4] # <<>>

\* C19: the wavelength array extract_spectrum returns is as long as the
\* flux array, and its entry k (from 0) is 10 to the COEFF0 + COEFF1*k of
\* block 0's header.
C19_WavelengthSolution ==
    (spectrum.fn = "extract_spectrum" /\ spectrum.returned)
       => /\ Len(spectrum.ret[1]) = Len(spectrum.ret[2])
          /\ \A k \in 0..(Len(spectrum.ret[1]) - 1) :
                spectrum.ret[1][k + 1].pow10
                   = spectrum.hdr.COEFF0 + spectrum.hdr.COEFF1 * k

\* C19: a returned wavelength array of at least two entries from a header
\* with COEFF0 = 3.58 and COEFF1 = 0.0002.
C19_Witness ==
    /\ spectrum.fn = "extract_spectrum"
    /\ spectrum.returned
    /\ spectrum.hdr.COEFF0 = 35800 /\ spectrum.hdr.COEFF1 = 2
    /\ Len(spectrum.ret[1]) >= 2
    /\ spectrum.ret[1][2].pow10 = 35802

\* C20: the path of an extract_frame call, the paths sc.get has been asked
\* for and the keys of the table are the paths below, character for
\* character: run and field zero-padded to 6 and 4 digits and written in
\* full when wider.
C20_PathAsFormatted ==
    LET expected(a) ==
          CASE a.run = 94 ->
                 "sdss_dr14://eboss/photoObj/frames/301/94/6/frame-g-000094-6-0007.fits.bz2"
            [] a.run = 6122 ->
                 "sdss_dr14://eboss/photoObj/frames/301/6122/1/frame-r-006122-1-0013.fits.bz2"
            [] a.run = 999999 ->
                 "file://eboss/photoObj/frames/301/999999/2/frame-z-999999-2-9999.fits.bz2"
            [] a.run = 1000000 ->
                 "sdss_dr14://eboss/photoObj/frames/301/1000000/3/frame-u-1000000-3-10000.fits.bz2"
            [] a.run = 1234567 ->
                 "sdss_dr14://eboss/photoObj/frames/301/1234567/4/frame-i-1234567-4-12345.fits.bz2"
            [] OTHER -> ""
    IN  /\ F.fn = "extract_frame" => F.fm = expected(F.args)
        /\ \A p \in FramePaths :
              hist[p].ok > 0 => p \in {expected(a) : a \in requested}
        /\ DOMAIN extract_frame_cache \subseteq {expected(a) : a \in requested}

\* C20: a frame of a seven-digit run and a five-digit field has been
\* fetched and stored.
C20_Witness ==
    /\ F.fn = "extract_frame"
    /\ F.args.run = 1234567 /\ F.args.field = 12345
    /\ Returned
    /\ F.gets = 1
    /\ Cached(F.fm)

====
